---------------------------- MODULE Spec2Model ----------------------------
(***************************************************************************)
(* A model of the extraction engine of src/fetch_warnme.py: the time       *)
(* normalizer, the body decoder, the category and location extractors and  *)
(* the incident date/time extractor.                                       *)
(*                                                                         *)
(* Text is a sequence of atoms.  An atom is a one-character string (a      *)
(* digit, ":", "/", ",", ".", " ", "\n", "<", ">") or a whole word that    *)
(* the regular expressions of the source treat as a literal ("On", "at",   *)
(* "pm", "March", "occurred", ...).  The regular expressions are           *)
(* translated atom by atom; the inputs are drawn from atoms on which the   *)
(* atom-level match and the character-level match coincide.                *)
(*                                                                         *)
(* Python's None is the one-atom text <<"None">>, which no input holds.    *)
(***************************************************************************)
EXTENDS Integers, Sequences, FiniteSets, TLC

VARIABLES
    raw_time,     \* _convert_time_to_24_and_12: the argument of the latest call
    time_ret,     \* its return value (time_24, time_12)
    time_prev,    \* the return value of the call before it
    time_pc,      \* "idle" | "start" | "done" | "again24" | "again12"
    body,         \* extract_incident_datetime: the body text
    email_iso,    \* its reference timestamp, None when absent
    now_year,     \* datetime.now().year, the clock of the process
    dt_ret,       \* the return value (date_iso, time_24) of the latest call
    dt_first,     \* the return value of the call before it
    dt_clock,     \* now_year when the latest call ran
    dt_pc,        \* "idle" | "start" | "called" | "again"
    subject,      \* extract_crime_type: the subject line
    crime_ret,    \* its return value
    crime_pc,     \* "idle" | "start" | "done"
    loc_body,     \* extract_location: the body text
    loc_ret,      \* its return value
    loc_pc,       \* "idle" | "start" | "done"
    full_message, \* extract_body_text: the message (payload tree and snippet)
    text_ret,     \* its return value
    text_pc       \* "idle" | "start" | "done"

timeVars == <<raw_time, time_ret, time_prev, time_pc>>

dtVars == <<body, email_iso, now_year, dt_ret, dt_first, dt_clock, dt_pc>>

crimeVars == <<subject, crime_ret, crime_pc>>

locVars == <<loc_body, loc_ret, loc_pc>>

textVars == <<full_message, text_ret, text_pc>>

vars == <<timeVars, dtVars, crimeVars, locVars, textVars>>

notTimeVars == <<dtVars, crimeVars, locVars, textVars>>

notDtVars == <<timeVars, crimeVars, locVars, textVars>>

notCrimeVars == <<timeVars, dtVars, locVars, textVars>>

notLocVars == <<timeVars, dtVars, crimeVars, textVars>>

notTextVars == <<timeVars, dtVars, crimeVars, locVars>>

----------------------------------------------------------------------------
(* Text helpers                                                            *)

None == <<"None">>

NoCall == <<"NoCall">>

Digits == {"0", "1", "2", "3", "4", "5", "6", "7", "8", "9"}

\* int() of one decimal digit
DigitVal(c) ==
    CASE c = "0" -> 0 [] c = "1" -> 1 [] c = "2" -> 2 [] c = "3" -> 3
      [] c = "4" -> 4 [] c = "5" -> 5 [] c = "6" -> 6 [] c = "7" -> 7
      [] c = "8" -> 8 [] c = "9" -> 9

\* str() of one decimal digit
DigitChar(n) ==
    CASE n = 0 -> "0" [] n = 1 -> "1" [] n = 2 -> "2" [] n = 3 -> "3"
      [] n = 4 -> "4" [] n = 5 -> "5" [] n = 6 -> "6" [] n = 7 -> "7"
      [] n = 8 -> "8" [] n = 9 -> "9"

\* int(s) for a text of decimal digits
RECURSIVE ToInt(_)
ToInt(s) ==
    IF Len(s) = 0 THEN 0
    ELSE 10 * ToInt(SubSeq(s, 1, Len(s) - 1)) + DigitVal(s[Len(s)])

\* f"{n}" for n >= 0
RECURSIVE FmtInt(_)
FmtInt(n) ==
    IF n < 10 THEN <<DigitChar(n)>>
    ELSE Append(FmtInt(n \div 10), DigitChar(n % 10))

\* f"{n:02d}" for n >= 0
Fmt02(n) == IF n < 10 THEN <<"0", DigitChar(n)>> ELSE FmtInt(n)

\* \s of the re module, and what str.strip() removes
IsSpace(c) == c \in {" ", "\t", "\n"}

IsDigit(c) == c \in Digits

\* str.isdigit()
AllDigits(s) == Len(s) > 0 /\ \A i \in 1..Len(s) : IsDigit(s[i])

RECURSIVE LStrip(_)
LStrip(s) ==
    IF Len(s) > 0 /\ IsSpace(s[1]) THEN LStrip(Tail(s)) ELSE s

RECURSIVE RStrip(_)
RStrip(s) ==
    IF Len(s) > 0 /\ IsSpace(s[Len(s)]) THEN RStrip(SubSeq(s, 1, Len(s) - 1))
    ELSE s

\* str.strip()
Strip(s) == LStrip(RStrip(s))

\* str.lower() on the meridiem atoms
Lower(a) ==
    CASE a = "AM" -> "am" [] a = "PM" -> "pm" [] a = "Am" -> "am"
      [] a = "Pm" -> "pm" [] OTHER -> a

\* str.zfill(4)
RECURSIVE ZFill4(_)
ZFill4(s) == IF Len(s) >= 4 THEN s ELSE ZFill4(<<"0">> \o s)

----------------------------------------------------------------------------
(* _convert_time_to_24_and_12                                              *)

\* the meridiem alternatives of the pattern at line 245 (no IGNORECASE)
Meridiems == {"am", "pm", "AM", "PM"}

\* re.match(r"^(\d{1,2}):(\d{2})\s*(am|pm|AM|PM)?$", raw): the groups
\* <<hour digits, minute digits, meridiem or None>>, or None without a match.
\* raw is stripped, so "$" is the end of the text.
ColonMatch(raw) ==
    LET k == IF Len(raw) >= 2 /\ IsDigit(raw[1]) /\ IsDigit(raw[2]) THEN 2
             ELSE IF Len(raw) >= 1 /\ IsDigit(raw[1]) THEN 1 ELSE 0
    IN IF k = 0 \/ Len(raw) < k + 3 THEN None
       ELSE IF ~(raw[k + 1] = ":" /\ IsDigit(raw[k + 2]) /\ IsDigit(raw[k + 3]))
       THEN None
       ELSE LET rest == LStrip(SubSeq(raw, k + 4, Len(raw)))
            IN IF rest = <<>> THEN
                   <<SubSeq(raw, 1, k), SubSeq(raw, k + 2, k + 3), None>>
               ELSE IF Len(rest) = 1 /\ rest[1] \in Meridiems THEN
                   <<SubSeq(raw, 1, k), SubSeq(raw, k + 2, k + 3), <<rest[1]>>>>
               ELSE None

\* lines 266-273 and 285-292: the 12-hour text of a 24-hour hour
To12Hour(hh, mm) ==
    IF hh = 0 THEN <<"1", "2", ":">> \o mm \o <<" ", "am">>
    ELSE IF hh = 12 THEN <<"1", "2", ":">> \o mm \o <<" ", "pm">>
    ELSE IF hh > 12 THEN FmtInt(hh - 12) \o <<":">> \o mm \o <<" ", "pm">>
    ELSE FmtInt(hh) \o <<":">> \o mm \o <<" ", "am">>

\* lines 251-261: the colon form with a meridiem
MeridiemBranch(hh, mm, ampm) ==
    LET ampm_lower == Lower(ampm)
        hh24 == IF ampm_lower = "pm" /\ hh # 12 THEN hh + 12
                ELSE IF ampm_lower = "am" /\ hh = 12 THEN 0
                ELSE hh
    IN <<Fmt02(hh24) \o <<":">> \o mm,
         FmtInt(hh) \o <<":">> \o mm \o <<" ", ampm_lower>>>>

\* lines 262-275: the colon form without a meridiem
NoMeridiemBranch(hh, mm) ==
    IF hh < 24 THEN <<Fmt02(hh) \o <<":">> \o mm, To12Hour(hh, mm)>>
    ELSE <<None, None>>

\* lines 243-275
ColonBranch(raw) ==
    LET m == ColonMatch(raw)
    IN IF m = None THEN <<None, None>>
       ELSE LET hh == ToInt(m[1])
                mm == m[2]
                ampm == m[3]
            IN IF ampm # None THEN MeridiemBranch(hh, mm, ampm[1])
               ELSE NoMeridiemBranch(hh, mm)

\* DigitsBranch with the hour check off by one
DigitsBranch_Accepts24(raw) ==
    LET raw_padded == ZFill4(raw)
        hh == ToInt(SubSeq(raw_padded, 1, 2))
        mm == SubSeq(raw_padded, 3, 4)
    IN IF hh > 24 THEN <<None, None>>
       ELSE <<Fmt02(hh) \o <<":">> \o mm,
              IF hh = 0 THEN <<"1", "2", ":">> \o mm \o <<" ", "am">>
              ELSE IF hh = 12 THEN <<"1", "2", ":">> \o mm \o <<" ", "pm">>
              ELSE IF hh > 12 THEN FmtInt(hh - 12) \o <<":">> \o mm \o <<" ", "pm">>
              ELSE FmtInt(hh) \o <<":">> \o mm \o <<" ", "am">>>>

\* lines 277-293: the guard len(raw) counts characters; a text of digits
\* has one atom per character
DigitsBranch(raw) ==
    LET raw_padded == ZFill4(raw)
        hh == ToInt(SubSeq(raw_padded, 1, 2))
        mm == SubSeq(raw_padded, 3, 4)
    IN IF hh > 23 THEN <<None, None>>
       ELSE <<Fmt02(hh) \o <<":">> \o mm, To12Hour(hh, mm)>>

_convert_time_to_24_and_12(raw_time_arg) ==
    LET raw == Strip(raw_time_arg)
    IN IF \E i \in 1..Len(raw) : raw[i] = ":" THEN ColonBranch(raw)
       ELSE IF AllDigits(raw) /\ 3 <= Len(raw) /\ Len(raw) <= 4
       THEN DigitsBranch(raw)
       ELSE <<None, None>>

----------------------------------------------------------------------------
(* extract_incident_datetime: the two grammars                             *)

\* re.IGNORECASE on the word atoms of the patterns
Fold(a) ==
    CASE a \in {"On", "ON"} -> "on"
      [] a \in {"At", "AT"} -> "at"
      [] a \in {"AM", "Am"} -> "am"
      [] a \in {"PM", "Pm"} -> "pm"
      [] a = "Hours" -> "hours"
      [] a = "Approximately" -> "approximately"
      [] a = "About" -> "about"
      [] a = "January" -> "january" [] a = "Jan" -> "jan"
      [] a = "February" -> "february" [] a = "Feb" -> "feb"
      [] a = "March" -> "march" [] a = "Mar" -> "mar"
      [] a = "April" -> "april" [] a = "Apr" -> "apr"
      [] a = "May" -> "may"
      [] a = "June" -> "june" [] a = "Jun" -> "jun"
      [] a = "July" -> "july" [] a = "Jul" -> "jul"
      [] a = "August" -> "august" [] a = "Aug" -> "aug"
      [] a = "September" -> "september" [] a = "Sep" -> "sep"
      [] a = "Sept" -> "sept"
      [] a = "October" -> "october" [] a = "Oct" -> "oct"
      [] a = "November" -> "november" [] a = "Nov" -> "nov"
      [] a = "December" -> "december" [] a = "Dec" -> "dec"
      [] a \in {"St", "ST"} -> "st" [] a \in {"Nd", "ND"} -> "nd"
      [] a \in {"Rd", "RD"} -> "rd" [] a \in {"Th", "TH"} -> "th"
      [] OTHER -> a

\* the atom at position i, "" past the end
AtomAt(s, i) == IF 1 <= i /\ i <= Len(s) THEN s[i] ELSE ""

\* the position after the whitespace run that starts at i (\s*)
RECURSIVE SkipSpaces(_, _)
SkipSpaces(s, i) ==
    IF i <= Len(s) /\ IsSpace(s[i]) THEN SkipSpaces(s, i + 1) ELSE i

\* the number of digits that start at i
RECURSIVE CountDigits(_, _)
CountDigits(s, i) ==
    IF i <= Len(s) /\ IsDigit(s[i]) THEN 1 + CountDigits(s, i + 1) ELSE 0

\* (?P<time>(?:\d{3,4}|\d{1,2}:\d{2}\s*(?:am|pm|AM|PM))) at position k:
\* the position after the time token, 0 without a match
TimeEnd(s, k) ==
    LET n == CountDigits(s, k)
    IN IF n >= 3 THEN k + (IF n >= 4 THEN 4 ELSE 3)
       ELSE IF n = 0 THEN 0
       ELSE IF ~(AtomAt(s, k + n) = ":" /\ CountDigits(s, k + n + 1) >= 2) THEN 0
       ELSE LET e == SkipSpaces(s, k + n + 3)
            IN IF Fold(AtomAt(s, e)) \in {"am", "pm"} THEN e + 1 ELSE 0

\* \s+at\s+(?:(approximately|about)\s+)?(?P<time>...) at position i:
\* <<start of the time token, position after it>>, None without a match
AtTime(s, i) ==
    LET a == SkipSpaces(s, i)
        b == SkipSpaces(s, a + 1)
        q == SkipSpaces(s, b + 1)
        k == IF Fold(AtomAt(s, b)) \in {"approximately", "about"} /\ q > b + 1
             THEN q ELSE b
        e == TimeEnd(s, k)
    IN IF a > i /\ Fold(AtomAt(s, a)) = "at" /\ b > a + 1 /\ e # 0
       THEN <<k, e>>
       ELSE None

\* INCIDENT_PATTERN at position i: <<date token, time token>>, or None
IncidentMatchAt(s, i) ==
    LET j == SkipSpaces(s, i + 1)
        nm == CountDigits(s, j)
        d == j + nm + 1
        nd == CountDigits(s, d)
        y == d + nd + 1
        c == IF AtomAt(s, y + 2) = "," THEN y + 3 ELSE y + 2
        t == AtTime(s, c)
    IN IF /\ Fold(AtomAt(s, i)) = "on"
          /\ j > i + 1
          /\ nm \in {1, 2} /\ AtomAt(s, j + nm) = "/"
          /\ nd \in {1, 2} /\ AtomAt(s, d + nd) = "/"
          /\ CountDigits(s, y) >= 2
          /\ t # None
       THEN <<SubSeq(s, j, y + 1), SubSeq(s, t[1], t[2] - 1)>>
       ELSE None

\* the month alternatives of MONTH_DAY_PATTERN: full names, and the
\* abbreviations that may carry a period
FullMonths ==
    {"january", "february", "march", "april", "may", "june", "july",
     "august", "september", "october", "november", "december"}

AbbrevMonths ==
    {"jan", "feb", "mar", "apr", "jun", "jul", "aug", "sep", "sept", "oct",
     "nov", "dec"}

\* MONTH_DAY_PATTERN at position i:
\* <<month token, day token, year token or None, time token or None>>, or None
MonthDayMatchAt(s, i) ==
    LET j == SkipSpaces(s, i + 1)
        mname == Fold(AtomAt(s, j))
        mend == IF mname \in AbbrevMonths /\ AtomAt(s, j + 1) = "." THEN j + 2
                ELSE j + 1
        d == SkipSpaces(s, mend)
        nd == IF CountDigits(s, d) >= 2 THEN 2 ELSE CountDigits(s, d)
        o == IF Fold(AtomAt(s, d + nd)) \in {"st", "nd", "rd", "th"}
             THEN d + nd + 1 ELSE d + nd
        yd == SkipSpaces(s, o + 1)
        hasYear == AtomAt(s, o) = "," /\ CountDigits(s, yd) >= 4
        ye == IF hasYear THEN yd + 4 ELSE o
        c == IF AtomAt(s, ye) = "," THEN ye + 1 ELSE ye
        t == AtTime(s, c)
    IN IF /\ Fold(AtomAt(s, i)) = "on"
          /\ j > i + 1
          /\ mname \in FullMonths \cup AbbrevMonths
          /\ d > mend
          /\ nd >= 1
       THEN <<SubSeq(s, j, mend - 1),
              SubSeq(s, d, d + nd - 1),
              IF hasYear THEN SubSeq(s, yd, yd + 3) ELSE None,
              IF t # None THEN SubSeq(s, t[1], t[2] - 1) ELSE None>>
       ELSE None

\* pattern.search(body): the match at the leftmost position that has one
RECURSIVE IncidentSearchFrom(_, _)
IncidentSearchFrom(s, i) ==
    IF i > Len(s) THEN None
    ELSE LET m == IncidentMatchAt(s, i)
         IN IF m # None THEN m ELSE IncidentSearchFrom(s, i + 1)

RECURSIVE MonthDaySearchFrom(_, _)
MonthDaySearchFrom(s, i) ==
    IF i > Len(s) THEN None
    ELSE LET m == MonthDayMatchAt(s, i)
         IN IF m # None THEN m ELSE MonthDaySearchFrom(s, i + 1)

----------------------------------------------------------------------------
(* extract_incident_datetime: dates                                        *)

\* f"{n:04d}" for n >= 0
Fmt04(n) ==
    IF n < 10 THEN <<"0", "0", "0">> \o FmtInt(n)
    ELSE IF n < 100 THEN <<"0", "0">> \o FmtInt(n)
    ELSE IF n < 1000 THEN <<"0">> \o FmtInt(n)
    ELSE FmtInt(n)

\* "YYYY-MM-DD"
IsoDate(year, month, day) ==
    Fmt04(year) \o <<"-">> \o Fmt02(month) \o <<"-">> \o Fmt02(day)

IsLeap(year) == year % 4 = 0 /\ (year % 100 # 0 \/ year % 400 = 0)

DaysInMonth(year, month) ==
    IF month = 2 THEN (IF IsLeap(year) THEN 29 ELSE 28)
    ELSE IF month \in {4, 6, 9, 11} THEN 30
    ELSE 31

\* the position of the first "/" of a date token
FirstSlash(date) == CHOOSE i \in 1..Len(date) : date[i] = "/" /\ \A j \in 1..(i - 1) : date[j] # "/"

\* datetime.strptime(date, "%m/%d/%y").date().isoformat(), None when
\* strptime raises: %y is 2000+yy below 69 and 1900+yy from 69 on
ParseMDY(date) ==
    LET a == FirstSlash(date)
        rest == SubSeq(date, a + 1, Len(date))
        b == FirstSlash(rest)
        month == ToInt(SubSeq(date, 1, a - 1))
        day == ToInt(SubSeq(rest, 1, b - 1))
        yy == ToInt(SubSeq(rest, b + 1, Len(rest)))
        year == IF yy < 69 THEN 2000 + yy ELSE 1900 + yy
    IN IF month \in 1..12 /\ day >= 1 /\ day <= DaysInMonth(year, month)
       THEN IsoDate(year, month, day)
       ELSE None

\* month_map.get(month_raw), 0 for None
MonthMap(month_raw) ==
    CASE month_raw \in {"january", "jan"} -> 1
      [] month_raw \in {"february", "feb"} -> 2
      [] month_raw \in {"march", "mar"} -> 3
      [] month_raw \in {"april", "apr"} -> 4
      [] month_raw = "may" -> 5
      [] month_raw \in {"june", "jun"} -> 6
      [] month_raw \in {"july", "jul"} -> 7
      [] month_raw \in {"august", "aug"} -> 8
      [] month_raw \in {"september", "sep", "sept"} -> 9
      [] month_raw \in {"october", "oct"} -> 10
      [] month_raw \in {"november", "nov"} -> 11
      [] month_raw \in {"december", "dec"} -> 12
      [] OTHER -> 0

\* dtparser.parse(email_iso).year, -1 when the parse raises: a timestamp
\* text starts with its four year digits
ParsedYear(email_iso_arg) ==
    IF Len(email_iso_arg) >= 5 /\ CountDigits(email_iso_arg, 1) = 4
          /\ email_iso_arg[5] = "-"
    THEN ToInt(SubSeq(email_iso_arg, 1, 4))
    ELSE -1

\* InferYear without the reference timestamp
InferYear_IgnoresEmail(year_token, email_iso_arg, now) ==
    IF year_token # None /\ AllDigits(year_token) THEN ToInt(year_token)
    ELSE now

\* lines 324-336: the year of a Grammar B date; now is datetime.now().year
InferYear(year_token, email_iso_arg, now) ==
    IF year_token # None /\ AllDigits(year_token) THEN ToInt(year_token)
    ELSE IF email_iso_arg # None /\ email_iso_arg # <<>>
               /\ ParsedYear(email_iso_arg) # -1
         THEN ParsedYear(email_iso_arg)
         ELSE now

\* lines 306-313: the result of a Grammar A match
IncidentResult(m) == <<ParseMDY(m[1]), _convert_time_to_24_and_12(m[2])[1]>>

\* MonthDayResult with the year always taken from the clock
MonthDayResult_ClockYear(m2, email_iso_arg, now) ==
    LET month == MonthMap(Fold(m2[1][1]))
        raw_time_tok == m2[4]
    IN <<IF month # 0 THEN IsoDate(now, month, ToInt(m2[2])) ELSE None,
         IF raw_time_tok # None
         THEN _convert_time_to_24_and_12(raw_time_tok)[1]
         ELSE None>>

\* lines 317-342: the result of a Grammar B match
MonthDayResult(m2, email_iso_arg, now) ==
    LET month_raw == Fold(m2[1][1])
        month == MonthMap(month_raw)
        day == ToInt(m2[2])
        year == InferYear(m2[3], email_iso_arg, now)
        date_iso == IF month # 0 THEN IsoDate(year, month, day) ELSE None
        raw_time_tok == m2[4]
        time_24 == IF raw_time_tok # None
                   THEN _convert_time_to_24_and_12(raw_time_tok)[1]
                   ELSE None
    IN <<date_iso, time_24>>

\* extract_incident_datetime filling a failed Grammar A field from Grammar B
extract_incident_datetime_Merged(body_arg, email_iso_arg, now) ==
    LET m == IncidentSearchFrom(body_arg, 1)
        m2 == MonthDaySearchFrom(body_arg, 1)
        a == IncidentResult(m)
        b == MonthDayResult(m2, email_iso_arg, now)
    IN IF m # None /\ m2 = None THEN a
       ELSE IF m # None
       THEN <<IF a[1] # None THEN a[1] ELSE b[1],
              IF a[2] # None THEN a[2] ELSE b[2]>>
       ELSE IF m2 = None THEN <<None, None>>
       ELSE b

\* lines 304-342
extract_incident_datetime(body_arg, email_iso_arg, now) ==
    LET m == IncidentSearchFrom(body_arg, 1)
        m2 == MonthDaySearchFrom(body_arg, 1)
    IN IF m # None THEN IncidentResult(m)
       ELSE IF m2 = None THEN <<None, None>>
       ELSE MonthDayResult(m2, email_iso_arg, now)

----------------------------------------------------------------------------
(* extract_crime_type                                                      *)

\* re.IGNORECASE on the atoms of CRIME_PATTERN and of the word patterns
FoldSubject(a) ==
    CASE a \in {"UC Berkeley WarnMe", "uc berkeley warnme"} -> "uc berkeley warnme"
      [] a \in {"Some May Find the Content Upsetting",
                "some may find the content upsetting"} ->
             "some may find the content upsetting"
      [] a \in {"Reported", "REPORTED"} -> "reported"
      [] a \in {"Report", "REPORT"} -> "report"
      [] OTHER -> a

\* \w at the edges of an atom: a word, not punctuation or whitespace
IsWordAtom(a) == a # "" /\ ~IsSpace(a) /\ a \notin {":", "-", ".", ",", "&"}

\* \.\s+Some May Find the Content Upsetting\. at position e
CrimeTailAt(s, e) ==
    LET t == SkipSpaces(s, e + 1)
    IN /\ AtomAt(s, e) = "."
       /\ t > e + 1
       /\ FoldSubject(AtomAt(s, t)) = "some may find the content upsetting"
       /\ AtomAt(s, t + 1) = "."

\* (?P<crime>.+?) from position c: the first position e > c that starts the
\* tail, with no line break before it ("." matches no "\n"); 0 without one
RECURSIVE CrimeEndFrom(_, _, _)
CrimeEndFrom(s, c, e) ==
    IF e > Len(s) \/ AtomAt(s, e - 1) = "\n" THEN 0
    ELSE IF CrimeTailAt(s, e) THEN e
    ELSE CrimeEndFrom(s, c, e + 1)

\* CRIME_PATTERN at position i: the text of the group crime, or None.  \s*
\* before the group is greedy and gives its last character back to the
\* group when the tail starts right after the whitespace.
CrimeMatchAt(s, i) ==
    LET j == SkipSpaces(s, i + 1)
        k == SkipSpaces(s, j + 1)
        e == CrimeEndFrom(s, k, k + 1)
    IN IF ~(FoldSubject(AtomAt(s, i)) = "uc berkeley warnme"
            /\ AtomAt(s, j) \in {":", "-"})
       THEN None
       ELSE IF k <= Len(s) /\ e # 0 THEN SubSeq(s, k, e - 1)
       ELSE IF k > j + 1 /\ AtomAt(s, k - 1) # "\n" /\ CrimeTailAt(s, k)
       THEN <<s[k - 1]>>
       ELSE None

\* CRIME_PATTERN.search(subject)
RECURSIVE CrimeSearchFrom(_, _)
CrimeSearchFrom(s, i) ==
    IF i > Len(s) THEN None
    ELSE LET m == CrimeMatchAt(s, i)
         IN IF m # None THEN m ELSE CrimeSearchFrom(s, i + 1)

\* re.sub(r"(?i)\bWORD\b", "", s) for WORD one of the two atoms
RECURSIVE RemoveWordFrom(_, _, _)
RemoveWordFrom(s, word, i) ==
    IF i > Len(s) THEN <<>>
    ELSE IF /\ FoldSubject(s[i]) = word
            /\ ~IsWordAtom(AtomAt(s, i - 1))
            /\ ~IsWordAtom(AtomAt(s, i + 1))
         THEN RemoveWordFrom(s, word, i + 1)
         ELSE <<s[i]>> \o RemoveWordFrom(s, word, i + 1)

\* re.sub(r"\s+", " ", s)
RECURSIVE CollapseSpaces(_)
CollapseSpaces(s) ==
    IF Len(s) = 0 THEN <<>>
    ELSE IF IsSpace(s[1])
         THEN <<" ">> \o CollapseSpaces(LStrip(s))
         ELSE <<s[1]>> \o CollapseSpaces(Tail(s))

\* CleanCrime without the pass that removes "Report"
CleanCrime_KeepsReport(group) ==
    LET crime1 == Strip(RemoveWordFrom(Strip(group), "reported", 1))
        crime3 == CollapseSpaces(crime1)
    IN IF crime3 = <<>> THEN None ELSE crime3

\* lines 196-202: the group crime cleaned
CleanCrime(group) ==
    LET crime0 == Strip(group)
        crime1 == Strip(RemoveWordFrom(crime0, "reported", 1))
        crime2 == Strip(RemoveWordFrom(crime1, "report", 1))
        crime3 == CollapseSpaces(crime2)
    IN IF crime3 = <<>> THEN None ELSE crime3

\* lines 186-202
extract_crime_type(subject_arg) ==
    IF subject_arg = <<>> THEN None
    ELSE LET m == CrimeSearchFrom(subject_arg, 1)
         IN IF m = None THEN None ELSE CleanCrime(m)

----------------------------------------------------------------------------
(* The subject lines the category extractor is applied to                  *)

\* the most atoms between the prefix and the closing sentence
MaxCategory == 3

CategoryAtoms == {"Robbery", "Reported", "report", "s", " ", "-"}

RECURSIVE Categories(_)
Categories(n) ==
    IF n = 0 THEN {<<>>}
    ELSE Categories(n - 1)
           \cup {Append(c, a) : c \in Categories(n - 1), a \in CategoryAtoms}

SubjectHeads ==
    {<<"UC Berkeley WarnMe", ":", " ">>, <<"UC Berkeley WarnMe", " ", "-", " ", " ">>,
     <<"Fwd", ":", " ", "uc berkeley warnme", ":">>, <<"UC Berkeley WarnMe", " ">>,
     <<"Campus Alert", ":", " ">>}

SubjectTails ==
    {<<".", " ", "Some May Find the Content Upsetting", ".">>,
     <<".", " ", " ", "some may find the content upsetting", ".", " ", "x">>,
     <<".", " ", "Some May Find the Content Upsetting">>,
     <<" ", "Some May Find the Content Upsetting", ".">>,
     <<".", "Some May Find the Content Upsetting", ".">>,
     <<".", " ", "Please Avoid the Area", ".">>,
     <<".", " ", "x", ".", " ", "Some May Find the Content Upsetting", ".">>}

Subjects ==
    {<<>>}
      \cup {h \o c \o t :
              h \in SubjectHeads, c \in Categories(MaxCategory), t \in SubjectTails}

CrimeIdle ==
    /\ subject = <<>>
    /\ crime_ret = NoCall
    /\ crime_pc = "idle"

CrimeStart ==
    /\ subject \in Subjects
    /\ crime_ret = NoCall
    /\ crime_pc = "start"

\* extract_crime_type(subject)
ExtractCrime ==
    /\ crime_pc = "start"
    /\ crime_ret' = extract_crime_type(subject)
    /\ crime_pc' = "done"
    /\ UNCHANGED subject
    /\ UNCHANGED notCrimeVars

----------------------------------------------------------------------------
(* extract_location                                                        *)

\* re.IGNORECASE on the word atoms of the location patterns
FoldLocation(a) ==
    CASE a \in {"Location", "LOCATION"} -> "location"
      [] a \in {"Area", "AREA"} -> "area"
      [] a \in {"Campus", "CAMPUS"} -> "campus"
      [] a \in {"Occurred", "OCCURRED"} -> "occurred"
      [] a \in {"In", "IN"} -> "in"
      [] a \in {"The", "THE"} -> "the"
      [] a \in {"Of", "OF"} -> "of"
      [] a \in {"At", "AT"} -> "at"
      [] a \in {"Near", "NEAR"} -> "near"
      [] OTHER -> a

\* body.splitlines(): the lines between the "\n" atoms
RECURSIVE SplitLinesFrom(_, _, _)
SplitLinesFrom(s, i, line) ==
    IF i > Len(s) THEN (IF line = <<>> THEN <<>> ELSE <<line>>)
    ELSE IF s[i] = "\n" THEN <<line>> \o SplitLinesFrom(s, i + 1, <<>>)
    ELSE SplitLinesFrom(s, i + 1, Append(line, s[i]))

SplitLines(s) == SplitLinesFrom(s, 1, <<>>)

\* str.rstrip('.')
RECURSIVE RStripDots(_)
RStripDots(s) ==
    IF Len(s) > 0 /\ s[Len(s)] = "." THEN RStripDots(SubSeq(s, 1, Len(s) - 1))
    ELSE s

\* LOCATION_PATTERNS on line.strip(): ^(location|area|campus)[:\-]\s*(.+)$,
\* the group or None.  The stripped line ends with no whitespace, so the
\* group is what follows the whitespace after the separator.
LabeledMatch(line) ==
    LET l == Strip(line)
        k == SkipSpaces(l, 3)
    IN IF /\ FoldLocation(AtomAt(l, 1)) \in {"location", "area", "campus"}
          /\ AtomAt(l, 2) \in {":", "-"}
          /\ k <= Len(l)
       THEN SubSeq(l, k, Len(l))
       ELSE None

\* lines 215-219: the first line, in text order, that a pattern matches
RECURSIVE FirstLabeled(_)
FirstLabeled(lines) ==
    IF lines = <<>> THEN None
    ELSE LET m == LabeledMatch(lines[1])
         IN IF m # None THEN RStripDots(Strip(m))
            ELSE FirstLabeled(Tail(lines))

\* the narrative patterns of lines 222-224, the words after "occurred"
NarrativeWords ==
    <<<<"in", "the", "area", "of">>, <<"at">>, <<"near">>>>

\* the words w, each after \s+, from position i: the position after the
\* last word, 0 without a match
RECURSIVE WordsEnd(_, _, _)
WordsEnd(s, i, w) ==
    IF w = <<>> THEN i
    ELSE LET k == SkipSpaces(s, i)
         IN IF k > i /\ FoldLocation(AtomAt(s, k)) = w[1]
            THEN WordsEnd(s, k + 1, Tail(w))
            ELSE 0

\* (.+?)\. from position c: the first "." after c with no line break before
\* it, 0 without one
RECURSIVE ClauseEndFrom(_, _)
ClauseEndFrom(s, e) ==
    IF e > Len(s) \/ AtomAt(s, e - 1) = "\n" THEN 0
    ELSE IF s[e] = "." THEN e
    ELSE ClauseEndFrom(s, e + 1)

\* occurred\s+<words>\s+(.+?)\. at position i: the group or None.  \s+ before
\* the group is greedy and gives its last character back to the group when
\* a period follows the whitespace and no later period ends the clause.
NarrativeMatchAt(s, i, w) ==
    LET a == IF FoldLocation(AtomAt(s, i)) = "occurred"
             THEN WordsEnd(s, i + 1, w) ELSE 0
        k == SkipSpaces(s, a)
        e == ClauseEndFrom(s, k + 1)
    IN IF a = 0 \/ k = a THEN None
       ELSE IF k <= Len(s) /\ e # 0 THEN SubSeq(s, k, e - 1)
       ELSE IF k > a + 1 /\ AtomAt(s, k - 1) # "\n" /\ AtomAt(s, k) = "."
       THEN <<s[k - 1]>>
       ELSE None

\* pattern.search(body)
RECURSIVE NarrativeSearchFrom(_, _, _)
NarrativeSearchFrom(s, i, w) ==
    IF i > Len(s) THEN None
    ELSE LET m == NarrativeMatchAt(s, i, w)
         IN IF m # None THEN m ELSE NarrativeSearchFrom(s, i + 1, w)

\* FirstNarrative with the patterns tried in the reverse order
RECURSIVE FirstNarrative_Reversed(_, _)
FirstNarrative_Reversed(s, n) ==
    IF n > Len(NarrativeWords) THEN None
    ELSE LET m == NarrativeSearchFrom(s, 1,
                      NarrativeWords[Len(NarrativeWords) + 1 - n])
         IN IF m # None THEN RStripDots(Strip(m))
            ELSE FirstNarrative_Reversed(s, n + 1)

\* lines 226-230: the first pattern, in list order, that matches anywhere
RECURSIVE FirstNarrative(_, _)
FirstNarrative(s, n) ==
    IF n > Len(NarrativeWords) THEN None
    ELSE LET m == NarrativeSearchFrom(s, 1, NarrativeWords[n])
         IN IF m # None THEN RStripDots(Strip(m))
            ELSE FirstNarrative(s, n + 1)

\* lines 205-230
extract_location(body_arg) ==
    LET labeled == FirstLabeled(SplitLines(body_arg))
    IN IF labeled # None THEN labeled ELSE FirstNarrative(body_arg, 1)

----------------------------------------------------------------------------
(* The bodies the location extractor is applied to                         *)

\* the most lines of a body
MaxLines == 3

BodyLines ==
    {<<"Location", ":", " ", "Oxford Street", " ", "&", " ", "Hearst Ave">>,
     <<" ", "AREA", "-", "Sproul Plaza", ".", ".", " ">>,
     <<"Campus", ":", "\t", "West Gate", ".">>,
     <<"Location", ":">>,
     <<"Location", " ", ":", " ", "Oxford Street">>,
     <<"It", " ", "occurred", " ", "near", " ", "Memorial Glade", ".">>,
     <<"It", " ", "Occurred", " ", " ", "AT", " ", "Lower Sproul Plaza", ".", " ", "x", ".">>,
     <<"occurred", " ", "in", " ", "the", " ", "area", " ", "of", " ",
       "Oxford Street", " ", "in", " ", "Berkeley", ".">>,
     <<"occurred", " ", "at", " ", " ", ".">>,
     <<"occurred", " ", "in", " ", "the">>,
     <<"area", " ", "of", " ", "Hearst Ave", ".">>,
     <<"occurred", " ", "near", " ", "the", " ", "gate">>,
     <<"x", ".">>,
     <<>>}

RECURSIVE LinesJoined(_)
LinesJoined(n) ==
    IF n = 1 THEN BodyLines
    ELSE {a \o <<"\n">> \o b : a \in LinesJoined(n - 1), b \in BodyLines}

LocationBodies == UNION {LinesJoined(n) : n \in 1..MaxLines}

LocIdle ==
    /\ loc_body = <<>>
    /\ loc_ret = NoCall
    /\ loc_pc = "idle"

LocStart ==
    /\ loc_body \in LocationBodies
    /\ loc_ret = NoCall
    /\ loc_pc = "start"

\* extract_location(body)
ExtractLocation ==
    /\ loc_pc = "start"
    /\ loc_ret' = extract_location(loc_body)
    /\ loc_pc' = "done"
    /\ UNCHANGED loc_body
    /\ UNCHANGED notLocVars

----------------------------------------------------------------------------
(* extract_body_text                                                       *)

(* A part is a record [mimeType, data, parts].  data is None (no body       *)
(* data), <<"bad">> (a blob base64.urlsafe_b64decode rejects) or            *)
(* <<"ok", text>>, the blob that decodes to text; the blob of the empty     *)
(* text is the empty string.                                                *)

\* the empty dict, which full_message.get("payload", {}) yields without a payload
EmptyPayload == [mimeType |-> "", data |-> None, parts |-> <<>>]

\* lines 115-124
RECURSIVE _collect_parts(_)
_collect_parts(payload) ==
    IF payload = EmptyPayload THEN <<>>
    ELSE IF payload.parts # <<>>
    THEN LET Each[n \in 0..Len(payload.parts)] ==
                 IF n = 0 THEN <<>>
                 ELSE Each[n - 1] \o _collect_parts(payload.parts[n])
         IN Each[Len(payload.parts)]
    ELSE <<payload>>

HexDigits ==
    Digits \cup {"A", "B", "C", "D", "E", "F", "a", "b", "c", "d", "e", "f"}

\* the character of a hex escape =XX
HexChar(a, b) ==
    CASE a = "2" /\ b = "0" -> " "
      [] a = "3" /\ b \in {"D", "d"} -> "="
      [] a = "0" /\ b \in {"A", "a"} -> "\n"
      [] OTHER -> "?"

\* line 147: re.search(r"=\r?\n", decoded) or re.search(r"=[0-9A-Fa-f]{2}", decoded)
LooksQuotedPrintable(t) ==
    \E i \in 1..Len(t) :
        /\ t[i] = "="
        /\ \/ AtomAt(t, i + 1) = "\n"
           \/ AtomAt(t, i + 1) \in HexDigits /\ AtomAt(t, i + 2) \in HexDigits

\* quopri.decodestring: a soft line break and a trailing "=" vanish, =XX is
\* the character XX, any other "=" stays
RECURSIVE QuopriDecode(_)
QuopriDecode(t) ==
    IF t = <<>> THEN <<>>
    ELSE IF t[1] # "=" THEN <<t[1]>> \o QuopriDecode(Tail(t))
    ELSE IF Len(t) = 1 THEN <<>>
    ELSE IF t[2] = "\n" THEN QuopriDecode(SubSeq(t, 3, Len(t)))
    ELSE IF AtomAt(t, 2) \in HexDigits /\ AtomAt(t, 3) \in HexDigits
    THEN <<HexChar(t[2], t[3])>> \o QuopriDecode(SubSeq(t, 4, Len(t)))
    ELSE <<"=">> \o QuopriDecode(Tail(t))

\* lines 141-151: the decoded text of a blob with data
Decode(data) ==
    LET decoded == data[2]
    IN IF LooksQuotedPrintable(decoded) THEN QuopriDecode(decoded) ELSE decoded

\* mime.startswith("text/plain") and mime.startswith("text/html")
IsPlainMime(mime) == mime \in {"text/plain", "text/plain; charset=utf-8"}

IsHtmlMime(mime) == mime \in {"text/html", "text/html; charset=utf-8"}

\* lines 135-155: the chunks of the parts that pass the filter
RECURSIVE TextChunks(_)
TextChunks(parts) ==
    IF parts = <<>> THEN <<>>
    ELSE LET part == parts[1]
             skip == part.data = None \/ part.data = <<"ok", <<>>>>
                       \/ part.data = <<"bad">>
         IN (IF ~skip /\ IsPlainMime(part.mimeType)
             THEN <<Strip(Decode(part.data))>> ELSE <<>>)
              \o TextChunks(Tail(parts))

RECURSIVE HtmlChunks(_)
HtmlChunks(parts) ==
    IF parts = <<>> THEN <<>>
    ELSE LET part == parts[1]
             skip == part.data = None \/ part.data = <<"ok", <<>>>>
                       \/ part.data = <<"bad">>
         IN (IF ~skip /\ ~IsPlainMime(part.mimeType) /\ IsHtmlMime(part.mimeType)
             THEN <<Decode(part.data)>> ELSE <<>>)
              \o HtmlChunks(Tail(parts))

\* "\n\n".join(chunks)
RECURSIVE JoinChunks(_)
JoinChunks(chunks) ==
    IF chunks = <<>> THEN <<>>
    ELSE IF Len(chunks) = 1 THEN chunks[1]
    ELSE chunks[1] \o <<"\n", "\n">> \o JoinChunks(Tail(chunks))

\* re.IGNORECASE on the tag names script and style
FoldTag(a) ==
    CASE a \in {"script", "SCRIPT", "Script"} -> "script"
      [] a \in {"style", "STYLE", "Style"} -> "style"
      [] OTHER -> a

\* the position of the first ">" from position i, 0 without one
RECURSIVE NextClose(_, _)
NextClose(t, i) ==
    IF i > Len(t) THEN 0
    ELSE IF t[i] = ">" THEN i
    ELSE NextClose(t, i + 1)

\* the position of the first </name> from position i, 0 without one
RECURSIVE NextEndTag(_, _, _)
NextEndTag(t, i, name) ==
    IF i > Len(t) THEN 0
    ELSE IF /\ t[i] = "<" /\ AtomAt(t, i + 1) = "/"
            /\ FoldTag(AtomAt(t, i + 2)) = name /\ AtomAt(t, i + 3) = ">"
         THEN i
         ELSE NextEndTag(t, i + 1, name)

\* line 162: re.sub(r"<(script|style)[^>]*>.*?</\1>", "", combined)
RECURSIVE StripScripts(_, _)
StripScripts(t, i) ==
    IF i > Len(t) THEN <<>>
    ELSE LET name == FoldTag(AtomAt(t, i + 1))
             g == NextClose(t, i + 2)
             e == IF g = 0 THEN 0 ELSE NextEndTag(t, g + 1, name)
         IN IF t[i] = "<" /\ name \in {"script", "style"} /\ e # 0
            THEN StripScripts(t, e + 4)
            ELSE <<t[i]>> \o StripScripts(t, i + 1)

\* line 164: re.sub(r"<[^>]+>", " ", combined)
RECURSIVE StripTags(_, _)
StripTags(t, i) ==
    IF i > Len(t) THEN <<>>
    ELSE LET g == NextClose(t, i + 2)
         IN IF t[i] = "<" /\ AtomAt(t, i + 1) # ">" /\ g # 0
            THEN <<" ">> \o StripTags(t, g + 1)
            ELSE <<t[i]>> \o StripTags(t, i + 1)

\* lines 160-167
RenderHtml(html_chunks) ==
    Strip(CollapseSpaces(StripTags(StripScripts(JoinChunks(html_chunks), 1), 1)))

\* line 168: full_message.get("snippet", "")
Snippet(message) == IF message.snippet = None THEN <<>> ELSE message.snippet

\* lines 156-168: the selection among the buckets
SelectBody(text_chunks, html_chunks, message) ==
    IF text_chunks # <<>> THEN JoinChunks(text_chunks)
    ELSE IF html_chunks # <<>> THEN RenderHtml(html_chunks)
    ELSE Snippet(message)

\* lines 127-168
extract_body_text(message) ==
    LET parts == _collect_parts(message.payload)
    IN SelectBody(TextChunks(parts), HtmlChunks(parts), message)

----------------------------------------------------------------------------
(* The messages the body decoder is applied to                             *)

\* the most parts of a multipart payload
MaxParts == 2

Leaf(mime, data) == [mimeType |-> mime, data |-> data, parts |-> <<>>]

Multipart(parts) ==
    [mimeType |-> "multipart/alternative", data |-> None, parts |-> parts]

PlainTexts ==
    {<<"Hello">>, <<" ", "\n">>, <<"=", "2", "0">>,
     <<" ", "Hi", " ", " ", "there", "\n">>, <<"a", "=", "\n", "b", "=">>}

HtmlTexts ==
    {<<"<", "p", ">", "Hello", "<", "/", "p", ">">>,
     <<"<", "br", ">", "\n">>,
     <<"<", "SCRIPT", " ", "x", ">", "code", "<", "/", "script", ">",
       "Hi", "=", "3", "D", "there">>,
     <<"<", "style", ">", "css", "<", "p", ">", "a", " ", "<", ">", " ", "b">>}

Leaves ==
    {Leaf("text/plain", <<"ok", t>>) : t \in PlainTexts}
      \cup {Leaf("text/html", <<"ok", t>>) : t \in HtmlTexts}
      \cup {Leaf("text/plain; charset=utf-8", <<"ok", <<"Hello", " ", "again">>>>),
            Leaf("text/plain", <<"bad">>), Leaf("text/plain", None),
            Leaf("text/plain", <<"ok", <<>>>>), Leaf("text/html", <<"bad">>),
            Leaf("image/png", <<"ok", <<"Hello">>>>),
            Leaf("", <<"ok", <<"Hello">>>>)}

\* the sequences of 1..n parts
RECURSIVE PartLists(_)
PartLists(n) ==
    IF n = 1 THEN {<<l>> : l \in Leaves}
    ELSE PartLists(n - 1)
           \cup {Append(ps, l) : ps \in PartLists(n - 1), l \in Leaves}

\* a multipart/alternative inside a multipart/mixed
NestedPayloads ==
    {Multipart(<<Multipart(<<a, b>>), c>>) :
        a \in {Leaf("text/plain", <<"ok", <<" ", "\n">>>>),
               Leaf("text/plain", <<"ok", <<"Hello">>>>)},
        b \in {Leaf("text/html", <<"ok", <<"<", "p", ">", "Hello", "<", "/", "p", ">">>>>),
               Leaf("text/html", <<"ok", <<"<", "br", ">", "\n">>>>)},
        c \in {Leaf("image/png", <<"ok", <<"Hello">>>>),
               Leaf("text/plain", <<"ok", <<"Hello">>>>)}}

Payloads ==
    {EmptyPayload} \cup Leaves \cup {Multipart(ps) : ps \in PartLists(MaxParts)}
      \cup NestedPayloads

Messages ==
    {[payload |-> p, snippet |-> sn] :
        p \in Payloads, sn \in {None, <<>>, <<"Preview", " ", "text">>}}

NoMessage == [payload |-> EmptyPayload, snippet |-> None]

TextIdle ==
    /\ full_message = NoMessage
    /\ text_ret = NoCall
    /\ text_pc = "idle"

TextStart ==
    /\ full_message \in Messages
    /\ text_ret = NoCall
    /\ text_pc = "start"

\* extract_body_text(full_message)
ExtractBodyText ==
    /\ text_pc = "start"
    /\ text_ret' = extract_body_text(full_message)
    /\ text_pc' = "done"
    /\ UNCHANGED full_message
    /\ UNCHANGED notTextVars

----------------------------------------------------------------------------
(* The time tokens the normalizer is applied to                            *)

\* the most spaces put before and after a token
MaxPad == 1

HourTexts ==
    {<<a>> : a \in Digits} \cup {<<a, b>> : a \in Digits, b \in Digits}

MinuteTexts == {<<"0", "0">>, <<"0", "7">>, <<"3", "0">>, <<"9", "9">>}

\* what may follow the minutes of a colon token
Suffixes ==
    {<<>>, <<" ", "am">>, <<" ", "pm">>, <<"pm">>, <<" ", "AM">>, <<"PM">>,
     <<" ", " ", "am">>, <<" ", "Pm">>, <<" ", "x">>}

DigitTokens == {h \o m : h \in HourTexts, m \in MinuteTexts}

ColonTokens ==
    {h \o <<":">> \o m \o s : h \in HourTexts, m \in MinuteTexts, s \in Suffixes}

OtherTokens ==
    {<<>>, <<"x">>, <<"1", "2">>, <<"1", "2", "3", "4", "5">>,
     <<"9", ":", "3">>, <<"9", ":", "3", " ", "pm">>, <<":", "3", "0">>,
     <<"1", "2", "3", ":", "3", "0">>, <<"9", "3", "0", " ", "pm">>,
     <<"9", " ", "3", "0">>, <<"9", ":", "3", "0", " ", "pm", "x">>}

Spaces(n) == [i \in 1..n |-> " "]

TimeTokens ==
    {Spaces(l) \o t \o Spaces(r) :
        l \in 0..MaxPad, r \in 0..MaxPad,
        t \in DigitTokens \cup ColonTokens \cup OtherTokens}

----------------------------------------------------------------------------
(* The bodies and reference timestamps the extractor is applied to         *)

\* the most phrases joined into one body
MaxPhrases == 2

\* how often the year of the clock changes between two calls
MaxTicks == 1

ADates ==
    {<<"3", "/", "1", "4", "/", "2", "4">>, <<"2", "/", "3", "1", "/", "2", "4">>,
     <<"2", "/", "2", "9", "/", "2", "4">>, <<"2", "/", "2", "9", "/", "2", "3">>,
     <<"1", "3", "/", "1", "/", "2", "4">>, <<"0", "/", "5", "/", "2", "4">>,
     <<"1", "2", "/", "3", "1", "/", "9", "9">>, <<"0", "4", "/", "3", "1", "/", "6", "8">>,
     <<"3", "/", "0", "/", "2", "4">>, <<"1", "1", "/", "3", "0", "/", "6", "9">>}

BodyTimes ==
    {<<"2", "1", "3", "0">>, <<"9", "3", "0">>, <<"2", "5", "0", "0">>,
     <<"9", ":", "3", "0", " ", "pm">>, <<"1", "3", ":", "3", "0", " ", "pm">>,
     <<"1", "2", ":", "0", "7", "AM">>, <<"9", ":", "3", "0", " ", "Pm">>,
     <<"2", "1", "9", "9">>}

\* "On <date>[,] at [approximately|about ]<time>[ hours]" in three styles
APhrase(date, time, style) ==
    CASE style = 1 -> <<"On", " ">> \o date \o <<" ", "at", " ">> \o time
      [] style = 2 -> <<"On", " ">> \o date
                        \o <<",", " ", "at", " ", "approximately", " ">>
                        \o time \o <<" ", "hours">>
      [] style = 3 -> <<"on", " ", " ">> \o date \o <<" ", "AT", "\n", "About", " ">>
                        \o time \o <<"hours">>

APhrases == {APhrase(d, t, st) : d \in ADates, t \in BodyTimes, st \in 1..3}

BMonths ==
    {<<"March">>, <<"Feb">>, <<"Feb", ".">>, <<"February">>, <<"sept">>}

BDays == {<<"2">>, <<"3", "1">>, <<"2", "9">>, <<"0">>}

BOrdinals == {<<>>, <<"nd">>}

BYears == {<<>>, <<",", " ", "2", "0", "2", "4">>, <<",", "2", "0", "2", "3">>}

\* what follows the date of a Grammar B phrase
BTails ==
    {<<>>,
     <<" ", "at", " ", "9", ":", "3", "0", " ", "pm">>,
     <<",", " ", "at", " ", "approximately", " ", "2", "1", "3", "0", " ", "hours">>,
     <<" ", "at", " ", "2", "5", "0", "0">>,
     <<" ", "at", " ", "1", "3", ":", "3", "0", " ", "pm">>,
     <<" ", "at", " ", "2", "1", ":", "3", "0">>}

BPhrases ==
    {<<"On", " ">> \o m \o <<" ">> \o d \o o \o y \o t :
        m \in BMonths, d \in BDays, o \in BOrdinals, y \in BYears, t \in BTails}

\* texts that match neither grammar
NoPhrases ==
    {<<>>, <<"x">>, <<"On", " ", "x">>,
     <<"On", " ", "3", "/", "1", "4", "/", "2", "4">>,
     <<"On", " ", "3", "/", "1", "4", "/", "2", "4", " ", "at">>,
     <<"On", " ", "3", "/", "1", "4", "/", "2", "4", " ", "at", " ", "2", "1", ":", "3", "0">>,
     <<"On", " ", "1", "2", "3", "/", "1", "/", "2", "4", " ", "at", " ", "2", "1", "3", "0">>,
     <<"On", " ", "3", "/", "1", "4", "/", "2", "4", "5", " ", "at", " ", "2", "1", "3", "0">>,
     <<"On", "3", "/", "1", "4", "/", "2", "4", " ", "at", " ", "2", "1", "3", "0">>,
     <<"3", "/", "1", "4", "/", "2", "4", " ", "at", " ", "2", "1", "3", "0">>,
     <<"On", " ", "May", ".", " ", "2">>, <<"On", " ", "March", "2">>,
     <<"March", " ", "2", "nd">>}

\* the phrases joined into longer bodies
JoinPhrases ==
    {APhrase(<<"3", "/", "1", "4", "/", "2", "4">>, <<"2", "1", "3", "0">>, 2),
     APhrase(<<"2", "/", "3", "1", "/", "2", "4">>, <<"9", ":", "3", "0", " ", "pm">>, 1),
     APhrase(<<"1", "2", "/", "3", "1", "/", "9", "9">>, <<"2", "5", "0", "0">>, 1),
     <<"On", " ", "March", " ", "2", "nd", " ", "at", " ", "9", ":", "3", "0", " ", "pm">>,
     <<"On", " ", "Feb", ".", " ", "3", "1", ",", " ", "2", "0", "2", "4">>,
     <<"On", " ", "sept", " ", "2", " ", "at", " ", "9", "3", "0">>,
     <<"On", " ", "3", "/", "1", "4", "/", "2", "4", " ", "at", " ", "2", "1", ":", "3", "0">>,
     <<"a", " ", "robbery", " ", "occurred">>}

RECURSIVE Joined(_)
Joined(n) ==
    IF n = 1 THEN JoinPhrases
    ELSE {a \o <<".", " ">> \o b : a \in Joined(n - 1), b \in JoinPhrases}

Bodies ==
    APhrases \cup BPhrases \cup NoPhrases
        \cup UNION {Joined(n) : n \in 1..MaxPhrases}

\* no timestamp, an empty one, the timestamp of the message, and a text that
\* dtparser.parse rejects
RefTimestamps == {<<"2", "0", "2", "3", "-", "03-05T10:00:00">>}

EmailIsos == {None, <<>>, <<"not a date">>} \cup RefTimestamps

----------------------------------------------------------------------------
(* extract_incident_datetime called twice on one message                   *)

DtIdle ==
    /\ body = <<>>
    /\ email_iso = None
    /\ now_year = 2026
    /\ dt_ret = NoCall
    /\ dt_first = NoCall
    /\ dt_clock = 2026
    /\ dt_pc = "idle"

DtStart ==
    /\ body \in Bodies
    /\ email_iso \in EmailIsos
    /\ now_year = 2026
    /\ dt_ret = NoCall
    /\ dt_first = NoCall
    /\ dt_clock = 2026
    /\ dt_pc = "start"

\* extract_incident_datetime(body, email_iso)
Extract ==
    /\ dt_pc = "start"
    /\ dt_ret' = extract_incident_datetime(body, email_iso, now_year)
    /\ dt_clock' = now_year
    /\ dt_pc' = "called"
    /\ UNCHANGED <<body, email_iso, now_year, dt_first>>
    /\ UNCHANGED notDtVars

\* the year of the processing date changes between two calls
NewYear ==
    /\ dt_pc = "called"
    /\ now_year < 2026 + MaxTicks
    /\ now_year' = now_year + 1
    /\ UNCHANGED <<body, email_iso, dt_ret, dt_first, dt_clock, dt_pc>>
    /\ UNCHANGED notDtVars

\* a second call with the same arguments
ExtractAgain ==
    /\ dt_pc = "called"
    /\ dt_first' = dt_ret
    /\ dt_ret' = extract_incident_datetime(body, email_iso, now_year)
    /\ dt_clock' = now_year
    /\ dt_pc' = "again"
    /\ UNCHANGED <<body, email_iso, now_year>>
    /\ UNCHANGED notDtVars

----------------------------------------------------------------------------
(* The time normalizer called on a token, then on its own output           *)

TimeIdle ==
    /\ raw_time = <<>>
    /\ time_ret = NoCall
    /\ time_prev = NoCall
    /\ time_pc = "idle"

TimeStart ==
    /\ raw_time \in TimeTokens
    /\ time_ret = NoCall
    /\ time_prev = NoCall
    /\ time_pc = "start"

\* normalize_time(raw_time)
Convert ==
    /\ time_pc = "start"
    /\ time_ret' = _convert_time_to_24_and_12(raw_time)
    /\ time_pc' = "done"
    /\ UNCHANGED <<raw_time, time_prev>>
    /\ UNCHANGED notTimeVars

\* normalize_time on the 24-hour text the first call returned
Renormalize24 ==
    /\ time_pc = "done"
    /\ time_ret[1] # None
    /\ raw_time' = time_ret[1]
    /\ time_prev' = time_ret
    /\ time_ret' = _convert_time_to_24_and_12(time_ret[1])
    /\ time_pc' = "again24"
    /\ UNCHANGED notTimeVars

\* normalize_time on the 12-hour text the first call returned
Renormalize12 ==
    /\ time_pc = "done"
    /\ time_ret[2] # None
    /\ raw_time' = time_ret[2]
    /\ time_prev' = time_ret
    /\ time_ret' = _convert_time_to_24_and_12(time_ret[2])
    /\ time_pc' = "again12"
    /\ UNCHANGED notTimeVars

----------------------------------------------------------------------------
(* The specifications: one per extractor, the others idle                  *)

InitTime == TimeStart /\ DtIdle /\ CrimeIdle /\ LocIdle /\ TextIdle

NextTime == Convert \/ Renormalize24 \/ Renormalize12

SpecTime == InitTime /\ [][NextTime]_vars

InitIncident == DtStart /\ TimeIdle /\ CrimeIdle /\ LocIdle /\ TextIdle

NextIncident == Extract \/ NewYear \/ ExtractAgain

SpecIncident == InitIncident /\ [][NextIncident]_vars

InitCrime == CrimeStart /\ TimeIdle /\ DtIdle /\ LocIdle /\ TextIdle

NextCrime == ExtractCrime

SpecCrime == InitCrime /\ [][NextCrime]_vars

InitLocation == LocStart /\ TimeIdle /\ DtIdle /\ CrimeIdle /\ TextIdle

NextLocation == ExtractLocation

SpecLocation == InitLocation /\ [][NextLocation]_vars

InitBody == TextStart /\ TimeIdle /\ DtIdle /\ CrimeIdle /\ LocIdle

NextBody == ExtractBodyText

SpecBody == InitBody /\ [][NextBody]_vars

----------------------------------------------------------------------------
(* Claims about the time normalizer                                        *)

\* a text "HH:MM" with HH in 00..23 and MM in 00..59
IsClock24(t) ==
    /\ Len(t) = 5
    /\ t[3] = ":"
    /\ \A i \in {1, 2, 4, 5} : IsDigit(t[i])
    /\ 10 * DigitVal(t[1]) + DigitVal(t[2]) <= 23
    /\ 10 * DigitVal(t[4]) + DigitVal(t[5]) <= 59

\* the token ends with a meridiem
HasMeridiem(t) ==
    LET raw == Strip(t) IN Len(raw) > 0 /\ raw[Len(raw)] \in Meridiems

\* the number before the colon of a colon token
TokenHour(t) ==
    LET raw == Strip(t)
        c == CHOOSE i \in 1..Len(raw) : raw[i] = ":" /\ \A j \in 1..(i - 1) : raw[j] # ":"
    IN ToInt(SubSeq(raw, 1, c - 1))

\* C1: a token with invalid clock values resolves to (none, none): a
\* returned 24-hour text denotes an hour in 00..23 and a minute in 00..59,
\* and a colon token with a meridiem is accepted only with an hour in 1..12.
C1_InvalidClockIsNone ==
    (time_pc = "done" /\ time_ret[1] # None) =>
        /\ IsClock24(time_ret[1])
        /\ HasMeridiem(raw_time) => TokenHour(raw_time) \in 1..12

\* the 12-hour hour text of each 24-hour hour, as the claim lists them
Hour12Text(h) ==
    CASE h = 0 -> <<"1", "2">> [] h = 12 -> <<"1", "2">>
      [] h = 1 \/ h = 13 -> <<"1">> [] h = 2 \/ h = 14 -> <<"2">>
      [] h = 3 \/ h = 15 -> <<"3">> [] h = 4 \/ h = 16 -> <<"4">>
      [] h = 5 \/ h = 17 -> <<"5">> [] h = 6 \/ h = 18 -> <<"6">>
      [] h = 7 \/ h = 19 -> <<"7">> [] h = 8 \/ h = 20 -> <<"8">>
      [] h = 9 \/ h = 21 -> <<"9">> [] h = 10 \/ h = 22 -> <<"1", "0">>
      [] h = 11 \/ h = 23 -> <<"1", "1">>

\* what the claim says a digits-only token of 3 or 4 digits returns
DigitsExpected(t) ==
    LET p == IF Len(t) = 3 THEN <<"0">> \o t ELSE t
        h == 10 * DigitVal(p[1]) + DigitVal(p[2])
    IN IF h > 23 THEN <<None, None>>
       ELSE <<<<p[1], p[2], ":", p[3], p[4]>>,
              Hour12Text(h) \o <<":", p[3], p[4], " ">>
                  \o <<IF h >= 12 THEN "pm" ELSE "am">>>>

\* C2: a digits-only token of 3 or 4 digits is left-padded to 4 digits, its
\* first two digits are the hour and its last two the minutes; the result is
\* (none, none) exactly when the hour is above 23, and otherwise "HH:MM" with
\* the 12-hour text of the inverse conversion; "2130", "0007" and "2500"
\* return what the specification lists.
C2_DigitsOnly ==
    (time_pc = "done" /\ AllDigits(raw_time) /\ Len(raw_time) \in {3, 4}) =>
        /\ time_ret = DigitsExpected(raw_time)
        /\ raw_time = <<"2", "1", "3", "0">> =>
               time_ret = <<<<"2", "1", ":", "3", "0">>,
                            <<"9", ":", "3", "0", " ", "pm">>>>
        /\ raw_time = <<"0", "0", "0", "7">> =>
               time_ret = <<<<"0", "0", ":", "0", "7">>,
                            <<"1", "2", ":", "0", "7", " ", "am">>>>
        /\ raw_time = <<"2", "5", "0", "0">> => time_ret = <<None, None>>

\* "2130" has been normalized to ("21:30", "9:30 pm")
C2_Witness ==
    /\ time_pc = "done"
    /\ raw_time = <<"2", "1", "3", "0">>
    /\ time_ret[2] = <<"9", ":", "3", "0", " ", "pm">>

\* C9: normalizing the 24-hour text or the 12-hour text of a result that has
\* both returns that same result.
C9_Idempotent ==
    (/\ time_pc \in {"again24", "again12"}
     /\ time_prev[1] # None
     /\ time_prev[2] # None) => time_ret = time_prev

----------------------------------------------------------------------------
(* Claims about extract_incident_datetime                                  *)

Called == dt_pc \in {"called", "again"}

\* Grammar A (Grammar B) matches somewhere in the text
HasA(s) == \E i \in 1..Len(s) : IncidentMatchAt(s, i) # None

HasB(s) == \E i \in 1..Len(s) : MonthDayMatchAt(s, i) # None

\* the position of the first match
PosA(s) ==
    CHOOSE i \in 1..Len(s) :
        /\ IncidentMatchAt(s, i) # None
        /\ \A j \in 1..(i - 1) : IncidentMatchAt(s, j) = None

PosB(s) ==
    CHOOSE i \in 1..Len(s) :
        /\ MonthDayMatchAt(s, i) # None
        /\ \A j \in 1..(i - 1) : MonthDayMatchAt(s, j) = None

FirstA(s) == IncidentMatchAt(s, PosA(s))

FirstB(s) == MonthDayMatchAt(s, PosB(s))

\* C6: under Grammar B the year of the date is the 4-digit year of the
\* text when it has one; without one it is the year of the reference
\* timestamp when one is given, and the year of the processing date when
\* none is given.
C6_YearInference ==
    (Called /\ ~HasA(body) /\ HasB(body)) =>
        LET m2 == FirstB(body)
            year == SubSeq(dt_ret[1], 1, 4)
        IN /\ dt_ret[1] # None
           /\ m2[3] # None => year = m2[3]
           /\ (m2[3] = None /\ email_iso \in RefTimestamps) =>
                  year = SubSeq(email_iso, 1, 4)
           /\ (m2[3] = None /\ email_iso = None) => year = Fmt04(dt_clock)

\* "On March 2nd at 9:30 pm" with the reference 2023-03-05T10:00:00 gave a
\* date in 2023
C6_Witness ==
    /\ dt_pc = "called"
    /\ body = <<"On", " ", "March", " ", "2", "nd", " ", "at", " ",
                "9", ":", "3", "0", " ", "pm">>
    /\ email_iso \in RefTimestamps
    /\ dt_ret = <<<<"2", "0", "2", "3", "-", "0", "3", "-", "0", "2">>,
                  <<"2", "1", ":", "3", "0">>>>

\* month, day and year denote a calendar date
ValidCalendar(year, month, day) ==
    /\ month \in 1..12
    /\ day >= 1
    /\ day <= (CASE month = 2 ->
                      (IF year % 4 = 0 /\ (year % 100 # 0 \/ year % 400 = 0)
                       THEN 29 ELSE 28)
                 [] month \in {4, 6, 9, 11} -> 30
                 [] OTHER -> 31)

\* the numbers of a Grammar A date token M/D/YY
ValidMDY(date) ==
    LET a == FirstSlash(date)
        rest == SubSeq(date, a + 1, Len(date))
        b == FirstSlash(rest)
        yy == ToInt(SubSeq(rest, b + 1, Len(rest)))
    IN ValidCalendar(IF yy < 69 THEN 2000 + yy ELSE 1900 + yy,
                     ToInt(SubSeq(date, 1, a - 1)),
                     ToInt(SubSeq(rest, 1, b - 1)))

\* the time the normalizer gives for a matched time token, None without one
TimeOf(tok) ==
    IF tok = None THEN None ELSE _convert_time_to_24_and_12(tok)[1]

\* C7: date and time fail independently under both grammars: matched date
\* tokens that denote no calendar date give a none date and leave the time
\* what the normalizer yields; a time token the normalizer rejects gives a
\* none time and leaves the date.
C7_IndependentFailure ==
    Called =>
        /\ HasA(body) =>
               /\ dt_ret[2] = TimeOf(FirstA(body)[2])
               /\ ValidMDY(FirstA(body)[1]) <=> dt_ret[1] # None
        /\ (~HasA(body) /\ HasB(body)) =>
               LET m2 == FirstB(body)
               IN /\ dt_ret[2] = TimeOf(m2[4])
                  /\ ValidCalendar(InferYear(m2[3], email_iso, dt_clock),
                                   MonthMap(Fold(m2[1][1])), ToInt(m2[2]))
                         <=> dt_ret[1] # None

\* C8 as stated: a second call with the same body and the same reference
\* timestamp returns what the first call returned, whenever it is made.
C8_SameInputsSameOutput ==
    (dt_pc = "again" /\ email_iso \in {None} \cup RefTimestamps) =>
        dt_ret = dt_first

\* the result uses the processing date: Grammar B alone matches, its text
\* has no year, and no reference timestamp gives one
UsesClock ==
    /\ ~HasA(body)
    /\ HasB(body)
    /\ FirstB(body)[3] = None
    /\ email_iso \notin RefTimestamps

\* C8, amended: a second call with the same body and the same reference
\* timestamp returns what the first call returned, whenever it is made,
\* unless Grammar B matches a date without a year and no reference timestamp
\* gives the year.
C8_PureUnlessClockYear ==
    (dt_pc = "again" /\ ~UsesClock) => dt_ret = dt_first

\* a date without a year was extracted twice, in different years, with a
\* reference timestamp
C8_Witness ==
    /\ dt_pc = "again"
    /\ dt_clock # 2026
    /\ ~HasA(body) /\ HasB(body)
    /\ FirstB(body)[3] = None
    /\ email_iso \in RefTimestamps
    /\ dt_ret = dt_first
    /\ dt_ret[1] # None

\* C10: a Grammar A match anywhere decides both fields, from the first
\* Grammar A match alone; Grammar B is consulted only when Grammar A matches
\* nowhere; without any match the result is (none, none).
C10_GrammarAFirst ==
    Called =>
        /\ HasA(body) =>
               dt_ret = <<ParseMDY(FirstA(body)[1]), TimeOf(FirstA(body)[2])>>
        /\ (~HasA(body) /\ HasB(body)) =>
               dt_ret = MonthDayResult(FirstB(body), email_iso, dt_clock)
        /\ (~HasA(body) /\ ~HasB(body)) => dt_ret = <<None, None>>

\* a Grammar B phrase with a date stands before the first Grammar A match,
\* whose date does not parse: the date is none
C10_Witness ==
    /\ dt_pc = "called"
    /\ HasA(body) /\ HasB(body)
    /\ PosB(body) < PosA(body)
    /\ ParseMDY(FirstA(body)[1]) = None
    /\ dt_ret[1] = None
    /\ dt_ret[2] # None

\* "On <M>/<D>/<YY>[,] at [approximately|about ]<H>:<MM>" with no am/pm after
\* it, at position i: <<date token, time token>>, or None
ColonPhraseAt(s, i) ==
    LET j == SkipSpaces(s, i + 1)
        nm == CountDigits(s, j)
        d == j + nm + 1
        nd == CountDigits(s, d)
        y == d + nd + 1
        c == IF AtomAt(s, y + 2) = "," THEN y + 3 ELSE y + 2
        a == SkipSpaces(s, c)
        b == SkipSpaces(s, a + 1)
        q == SkipSpaces(s, b + 1)
        k == IF Fold(AtomAt(s, b)) \in {"approximately", "about"} /\ q > b + 1
             THEN q ELSE b
        nh == CountDigits(s, k)
        e == k + nh + 3
    IN IF /\ Fold(AtomAt(s, i)) = "on"
          /\ j > i + 1
          /\ nm \in {1, 2} /\ AtomAt(s, j + nm) = "/"
          /\ nd \in {1, 2} /\ AtomAt(s, d + nd) = "/"
          /\ CountDigits(s, y) = 2
          /\ a > c /\ Fold(AtomAt(s, a)) = "at" /\ b > a + 1
          /\ nh \in {1, 2} /\ AtomAt(s, k + nh) = ":"
          /\ CountDigits(s, k + nh + 1) = 2
          /\ Fold(AtomAt(s, SkipSpaces(s, e))) \notin {"am", "pm"}
       THEN <<SubSeq(s, j, y + 1), SubSeq(s, k, e - 1)>>
       ELSE None

\* a colon-form phrase without a meridiem stands in the text, with no
\* Grammar A match of the pattern before it
HasColonPhrase(s) ==
    \E i \in 1..Len(s) :
        /\ ColonPhraseAt(s, i) # None
        /\ \A j \in 1..(i - 1) :
               IncidentMatchAt(s, j) = None /\ ColonPhraseAt(s, j) = None

FirstColonPhrase(s) ==
    ColonPhraseAt(s, CHOOSE i \in 1..Len(s) :
        /\ ColonPhraseAt(s, i) # None
        /\ \A j \in 1..(i - 1) :
               IncidentMatchAt(s, j) = None /\ ColonPhraseAt(s, j) = None)

\* C11: Grammar A accepts a colon-form time with the meridiem optional: for a
\* body whose first Grammar A phrase is "On <M>/<D>/<YY> at <H>:<MM>" with no
\* am/pm, the result is the parsed date together with the 24-hour time the
\* normalizer gives for "<H>:<MM>".
C11_ColonWithoutMeridiem ==
    (Called /\ HasColonPhrase(body)) =>
        dt_ret = <<ParseMDY(FirstColonPhrase(body)[1]),
                   TimeOf(FirstColonPhrase(body)[2])>>

----------------------------------------------------------------------------
(* Claims about extract_crime_type                                         *)

\* the template matches somewhere in the subject
TemplateMatches(s) == \E i \in 1..Len(s) : CrimeMatchAt(s, i) # None

\* the category captured by the first match
Captured(s) ==
    CrimeMatchAt(s, CHOOSE i \in 1..Len(s) :
                        /\ CrimeMatchAt(s, i) # None
                        /\ \A j \in 1..(i - 1) : CrimeMatchAt(s, j) = None)

\* the atom at i is the word Reported or Report, in any case, standing alone
Standalone(s, i) ==
    /\ FoldSubject(s[i]) \in {"reported", "report"}
    /\ i = 1 \/ ~IsWordAtom(s[i - 1])
    /\ i = Len(s) \/ ~IsWordAtom(s[i + 1])

\* the positions of the category that remain: no whitespace, no standalone
\* Reported or Report
Kept(cap) == {i \in 1..Len(cap) : ~IsSpace(cap[i]) /\ ~Standalone(cap, i)}

\* the n-th remaining position
NthKept(cap, n) ==
    CHOOSE i \in Kept(cap) : Cardinality({j \in Kept(cap) : j <= i}) = n

\* the remaining atoms up to the n-th, one space where whitespace stood
\* between two of them
RECURSIVE CategoryUpTo(_, _)
CategoryUpTo(cap, n) ==
    IF n = 0 THEN <<>>
    ELSE IF n = 1 THEN <<cap[NthKept(cap, 1)]>>
    ELSE CategoryUpTo(cap, n - 1)
           \o (IF \E j \in NthKept(cap, n - 1)..NthKept(cap, n) : IsSpace(cap[j])
               THEN <<" ">> ELSE <<>>)
           \o <<cap[NthKept(cap, n)]>>

----------------------------------------------------------------------------
(* Claims about extract_location                                           *)

\* the lines that are labeled lines
LabeledLines(s) ==
    {n \in 1..Len(SplitLines(s)) : LabeledMatch(SplitLines(s)[n]) # None}

\* the narrative patterns that match somewhere in the text
MatchingPatterns(s) ==
    {n \in 1..Len(NarrativeWords) :
        \E i \in 1..Len(s) : NarrativeMatchAt(s, i, NarrativeWords[n]) # None}

Least(S) == CHOOSE n \in S : \A m \in S : n <= m

\* the clause of the leftmost match of pattern n
LeftmostClause(s, n) ==
    NarrativeMatchAt(s,
        Least({i \in 1..Len(s) : NarrativeMatchAt(s, i, NarrativeWords[n]) # None}),
        NarrativeWords[n])

\* the position of the first match of pattern n, 0 without one
PatternPos(s, n) ==
    IF n \in MatchingPatterns(s)
    THEN Least({i \in 1..Len(s) : NarrativeMatchAt(s, i, NarrativeWords[n]) # None})
    ELSE 0

\* C5: a labeled line anywhere decides: the remainder of the first labeled
\* line, its trailing periods stripped; without one, the first narrative
\* pattern in the order "in the area of", "at", "near" that matches anywhere
\* decides, wherever the others match; without any match the result is none.
C5_LocationPriority ==
    loc_pc = "done" =>
        /\ LabeledLines(loc_body) # {} =>
               loc_ret = RStripDots(LabeledMatch(
                             SplitLines(loc_body)[Least(LabeledLines(loc_body))]))
        /\ (LabeledLines(loc_body) = {} /\ MatchingPatterns(loc_body) # {}) =>
               loc_ret = RStripDots(Strip(LeftmostClause(loc_body,
                                              Least(MatchingPatterns(loc_body)))))
        /\ (LabeledLines(loc_body) = {} /\ MatchingPatterns(loc_body) = {}) =>
               loc_ret = None

\* no labeled line; "occurred near" stands before "occurred at" in the text,
\* and the location of "occurred at" was returned
C5_Witness ==
    /\ loc_pc = "done"
    /\ LabeledLines(loc_body) = {}
    /\ PatternPos(loc_body, 2) > PatternPos(loc_body, 3)
    /\ PatternPos(loc_body, 3) > 0
    /\ loc_ret = <<"Lower Sproul Plaza">>

----------------------------------------------------------------------------
(* Body decoder                                                            *)

\* the blank-line join of the decoded text/plain chunks of a message
PlainCandidate(message) == JoinChunks(TextChunks(_collect_parts(message.payload)))

\* the sanitized rendering of the text/html chunks of a message
HtmlCandidate(message) == RenderHtml(HtmlChunks(_collect_parts(message.payload)))

\* the first non-empty candidate of the fallback chain
FirstNonEmpty(message) ==
    IF PlainCandidate(message) # <<>> THEN PlainCandidate(message)
    ELSE IF HtmlCandidate(message) # <<>> THEN HtmlCandidate(message)
    ELSE Snippet(message)

\* C3: for every payload the result of extract_body_text is the blank-line
\* join of the decoded text/plain chunks if that text is non-empty, otherwise
\* the sanitized rendering of the text/html chunks if that is non-empty,
\* otherwise the snippet or the empty string; a whitespace-only text/plain
\* part beside a text/html part with content yields the HTML rendering.
C3_FallbackChain ==
    text_pc = "done" => text_ret = FirstNonEmpty(full_message)


=============================================================================
